---------------------------- MODULE Spec2Model ----------------------------
(***************************************************************************)
(* portmapper: registration and discovery of (name, port) service records  *)
(* in an etcd directory.  One client process runs Register, Unregister and *)
(* Services (portmapper.go); the etcd store is shared with other clients   *)
(* of the same library and with foreign writers.                           *)
(***************************************************************************)
EXTENDS Integers, Sequences, FiniteSets, TLC

(***************************************************************************)
(* Package variables (portmapper.go:14-31)                                 *)
(***************************************************************************)
RegistryPath == "/opsee.co/portmapper"

\* MaxRetries is an exported variable (default 11) that callers may set; the
\* loops are run here with a smaller value.
MaxRetries == 4

(***************************************************************************)
(* Inputs of the model                                                     *)
(***************************************************************************)
\* longest service name given to path() in PathSpec
MaxNameLen == 2

\* ports callers pass: two valid ones and one on each side of the range
Ports == {0, 8080, 8081, 65536}

\* names callers pass
Names == {"", "web"}

\* values of the HOSTNAME environment variable of this process
Hostnames == {"", "h1"}

\* error values
Nil == "nil"

DeadlineExceeded == "context deadline exceeded"

KeyNotFound == "100: Key not found"

StoreError == "store error"

ClientError == "client: endpoint not valid"

\* the zero value of an unset services result / record list
NoServices == <<>>

VARIABLES
    store,      \* etcd: key -> value, for the keys present
    pc,         \* "idle" | "attempt" | "sleep" | "returned" | "panicked" | "exited"
    op,         \* "none" | "Register" | "Unregister" | "Services"
    svc,        \* the call's Service record
    bytes,      \* Register: the marshalled record
    try,        \* the loop variable
    services,   \* Services: the result slice
    ret,        \* what the call returned: [val, err]
    attempts,   \* history: store operations issued by this call
    timeouts,   \* history: how many of them answered DeadlineExceeded
    acked,      \* history: one of them was acknowledged
    lastAns,    \* history: the answer to the latest store operation
    sleeps,     \* history: the durations slept by this call, in milliseconds
    resp,       \* history: the nodes of the latest successful Get
    issuedInvalid, \* history: a Set or Delete was issued for an invalid record
    registered, \* history: (name, port) pairs whose Register returned nil
    onlyRegs,   \* history: nothing but Register calls returning nil changed the store
    pureIn,     \* a function on its own: the records given to it
    pureOut,    \* a function on its own: its results
    peer        \* a second process that runs Register: its position and locals

vars == <<store, pc, op, svc, bytes, try, services, ret, attempts, timeouts, acked,
          lastAns, sleeps, resp, issuedInvalid, registered, onlyRegs,
          pureIn, pureOut, peer>>

callVars == <<pc, op, svc, bytes, try, services, ret>>

histVars == <<attempts, timeouts, acked, lastAns, sleeps, resp>>

pureVars == <<pureIn, pureOut>>

(***************************************************************************)
(* Service and its codec                                                   *)
(***************************************************************************)
NewService(name, port, hostname) == [Name |-> name, Port |-> port, Hostname |-> hostname]

\* the zero value &Service{}
ZeroService == NewService("", 0, "")

\* validate() with the lower limit of the port off by one
validateOffByOne(s) ==
    IF s.Name = "" THEN "Service lacks Name field"
    ELSE IF s.Port < 0 \/ s.Port > 65535 THEN "Service Port is outside valid range"
    ELSE Nil

validate(s) ==
    IF s.Name = "" THEN "Service lacks Name field"
    ELSE IF s.Port < 1 \/ s.Port > 65535 THEN "Service Port is outside valid range"
    ELSE Nil

Digit == [d \in 0..9 |->
            CASE d = 0 -> "0" [] d = 1 -> "1" [] d = 2 -> "2" [] d = 3 -> "3"
              [] d = 4 -> "4" [] d = 5 -> "5" [] d = 6 -> "6" [] d = 7 -> "7"
              [] d = 8 -> "8" [] d = 9 -> "9"]

RECURSIVE FormatUint(_)
FormatUint(n) == IF n < 10 THEN Digit[n] ELSE FormatUint(n \div 10) \o Digit[n % 10]

\* the %d verb
FormatInt(n) == IF n < 0 THEN "-" \o FormatUint(0 - n) ELSE FormatUint(n)

\* path() without the ':' between name and port
pathNoSeparator(s) == RegistryPath \o "/" \o s.Name \o FormatInt(s.Port)

path(s) == RegistryPath \o "/" \o s.Name \o ":" \o FormatInt(s.Port)

\* Go strings are byte strings.  InvalidByte stands for a byte that is no
\* valid UTF-8 (0xFF) and ReplacementRune for U+FFFD.
InvalidByte == "\\xff"

ReplacementRune == "\\ufffd"

\* characters of the strings given to the codec besides InvalidByte
ValidChars == {"a", "-"}

\* the strings up to length n with what json.Marshal writes for them: it
\* coerces a string to valid UTF-8, replacing invalid bytes with U+FFFD
RECURSIVE CoercionsUpTo(_)
CoercionsUpTo(n) ==
    IF n = 0 THEN {<<"", "">>}
    ELSE LET t == CoercionsUpTo(n - 1)
         IN  t \cup {<<p[1] \o InvalidByte, p[2] \o ReplacementRune>> : p \in t}
               \cup {<<p[1] \o c, p[2] \o c>> : p \in t, c \in ValidChars}

Coercions == CoercionsUpTo(MaxNameLen)

\* the strings of the model that hold an invalid byte are those of Coercions
ToValidUTF8(x) ==
    LET hit == {p \in Coercions : p[1] = x}
    IN  IF hit = {} THEN x ELSE (CHOOSE p \in hit : TRUE)[2]

\* A JSON document is modelled by its members in order and by whether the
\* text is complete; a member carries a string (str) or a number (num).
StrMember(k, v) == [key |-> k, str |-> v]

NumMember(k, v) == [key |-> k, num |-> v]

IsStr(m) == "str" \in DOMAIN m

Marshal(s) ==
    [members |-> <<StrMember("name", ToValidUTF8(s.Name)), NumMember("port", s.Port)>>
                  \o (IF s.Hostname = "" THEN <<>>
                      ELSE <<StrMember("hostname", ToValidUTF8(s.Hostname))>>),
     closed |-> TRUE]

SyntaxError == "unexpected end of JSON input"

TypeError == "json: cannot unmarshal string into Go value of type int"

TypeErrorStr == "json: cannot unmarshal number into Go value of type string"

\* json.Unmarshal's assignment of one member to the struct
SetMember(s, m) ==
    CASE m.key = "name"     -> [s EXCEPT !.Name = m.str]
      [] m.key = "port"     -> [s EXCEPT !.Port = m.num]
      [] m.key = "hostname" -> [s EXCEPT !.Hostname = m.str]
      [] OTHER              -> s

MemberError(m) ==
    CASE m.key \in {"name", "hostname"} /\ ~IsStr(m) -> TypeErrorStr
      [] m.key = "port" /\ IsStr(m)                  -> TypeError
      [] OTHER                                       -> Nil

RECURSIVE DecodeMembers(_, _)
DecodeMembers(s, ms) ==
    IF ms = <<>> THEN [svc |-> s, err |-> Nil]
    ELSE IF MemberError(Head(ms)) # Nil
         THEN [svc |-> ZeroService, err |-> MemberError(Head(ms))]
         ELSE DecodeMembers(SetMember(s, Head(ms)), Tail(ms))

UnmarshalService(b) ==
    IF ~b.closed THEN [svc |-> ZeroService, err |-> SyntaxError]
    ELSE DecodeMembers(ZeroService, b.members)

(***************************************************************************)
(* The etcd keys API as the library uses it.  Every operation is answered: *)
(* acknowledged, context.DeadlineExceeded (the request may or may not have *)
(* been applied by the server), or another error.                          *)
(***************************************************************************)
\* A name may hold '/': etcd then makes the key's parent a directory under
\* the registry.  DirNames and LeafNames are the segments of such names.
DirNames == {"a"}

LeafNames == {"b"}

NestedPorts == {8080}

\* the directories under the registry that a key lies in
ParentDirs(key) ==
    { RegistryPath \o "/" \o d : d \in { e \in DirNames :
        \E l \in LeafNames, p \in NestedPorts :
            key = RegistryPath \o "/" \o e \o "/" \o l \o ":" \o FormatInt(p) } }

\* a directory node carries no value: Node.Value is the empty string
DirValue == [members |-> <<>>, closed |-> FALSE]

\* Set creates the missing parent directories of the key
Put(st, key, value) ==
    [k \in DOMAIN st \cup {key} \cup ParentDirs(key) |->
        IF k = key THEN value
        ELSE IF k \in DOMAIN st THEN st[k] ELSE DirValue]

\* a Delete that takes the whole registry directory with it
RemoveAll(st, key) == [k \in {} |-> st[k]]

Remove(st, key) == [k \in DOMAIN st \ {key} |-> st[k]]

StoreSet(st, key, value) ==
    { [err |-> Nil, store |-> Put(st, key, value)],
      [err |-> DeadlineExceeded, store |-> Put(st, key, value)],
      [err |-> DeadlineExceeded, store |-> st],
      [err |-> StoreError, store |-> st] }

StoreDelete(st, key) ==
    IF key \in DOMAIN st
    THEN { [err |-> Nil, store |-> Remove(st, key)],
           [err |-> DeadlineExceeded, store |-> Remove(st, key)],
           [err |-> DeadlineExceeded, store |-> st],
           [err |-> StoreError, store |-> st] }
    ELSE { [err |-> KeyNotFound, store |-> st],
           [err |-> DeadlineExceeded, store |-> st],
           [err |-> StoreError, store |-> st] }

Node(st, key) == [Key |-> key, Value |-> st[key]]

\* resp.Node.Nodes: the children of the registry directory, in any order
Listings(st) ==
    LET top == {k \in DOMAIN st : ParentDirs(k) = {}}
        n == Cardinality(top)
    IN  { [i \in 1..n |-> Node(st, f[i])] :
            f \in { g \in [1..n -> top] :
                       \A i, j \in 1..n : i # j => g[i] # g[j] } }

StoreGet(st) ==
    { [err |-> Nil, nodes |-> l] : l \in Listings(st) }
      \cup { [err |-> DeadlineExceeded, nodes |-> <<>>],
             [err |-> StoreError, nodes |-> <<>>] }

(***************************************************************************)
(* The retry loop shared by Register, Unregister and Services              *)
(***************************************************************************)
\* the loop condition letting one more pass through
LoopCondInclusive(t) == t <= MaxRetries

\* for try := 0; try < MaxRetries; try++
LoopCond(t) == t < MaxRetries

\* every error taken for a timeout
IsTimeoutAnyError(err) == err # Nil

\* err == context.DeadlineExceeded
IsTimeout(err) == err = DeadlineExceeded

\* a backoff that grows by a step instead of doubling
BackoffLinear(t) == 2 * (t + 1)

\* time.Sleep(2 << uint(try) * time.Millisecond), in milliseconds.  The shift
\* is done in 64 bits; for try < MaxRetries it stays far below that width.
Backoff(t) == 2 * (2 ^ t)

\* the loop body without the break
OnAnswerNoBreak(err) ==
    IF err # Nil
    THEN IF err = DeadlineExceeded THEN "sleep" ELSE "return"
    ELSE "sleep"

\* What the body of Register's and Unregister's loop does with an answer:
\* a timeout falls through to the sleep, another error is returned, and an
\* acknowledgement breaks out of the loop.
OnAnswer(err) ==
    IF err # Nil
    THEN IF IsTimeout(err) THEN "sleep" ELSE "return"
    ELSE "break"

\* What the body of Services' loop does with an answer: an acknowledged read
\* is decoded and the loop goes on to the sleep.
ServicesOnAnswer(err) ==
    IF err # Nil
    THEN IF IsTimeout(err) THEN "sleep" ELSE "return"
    ELSE "decode"

\* the value after the loop: return nil
AfterLoop == Nil

\* the loop over svcNodes filling the slice from its end
RECURSIVE DecodeNodesReversed(_)
DecodeNodesReversed(nodes) ==
    IF nodes = <<>> THEN [val |-> <<>>, err |-> Nil]
    ELSE LET d == UnmarshalService(Head(nodes).Value)
         IN  IF d.err # Nil THEN [val |-> NoServices, err |-> d.err]
             ELSE LET rest == DecodeNodesReversed(Tail(nodes))
                  IN  IF rest.err # Nil THEN rest
                      ELSE [val |-> rest.val \o <<d.svc>>, err |-> Nil]

\* the loop over svcNodes going on past a node that does not decode
RECURSIVE DecodeNodesSkipBad(_)
DecodeNodesSkipBad(nodes) ==
    IF nodes = <<>> THEN [val |-> <<>>, err |-> Nil]
    ELSE LET d == UnmarshalService(Head(nodes).Value)
             rest == DecodeNodesSkipBad(Tail(nodes))
         IN  IF d.err # Nil THEN rest
             ELSE [val |-> <<d.svc>> \o rest.val, err |-> Nil]

\* the loop over svcNodes: the records decoded in order, or the first error
RECURSIVE DecodeNodes(_)
DecodeNodes(nodes) ==
    IF nodes = <<>> THEN [val |-> <<>>, err |-> Nil]
    ELSE LET d == UnmarshalService(Head(nodes).Value)
         IN  IF d.err # Nil THEN [val |-> NoServices, err |-> d.err]
             ELSE LET rest == DecodeNodes(Tail(nodes))
                  IN  IF rest.err # Nil THEN rest
                      ELSE [val |-> <<d.svc>> \o rest.val, err |-> Nil]

\* the decoded records appended to the slice of the pass before
RefillAppend(old, decoded) == old \o decoded

\* services = make([]*Service, len(svcNodes)) and services[i] = svc: the
\* slice is made anew in every pass that reads
Refill(old, decoded) == decoded

\* exhaustion without a record reported as the timeout
ServicesReturnErrorIfEmpty(svcs) ==
    IF svcs = <<>> THEN [val |-> NoServices, err |-> DeadlineExceeded]
    ELSE [val |-> svcs, err |-> Nil]

\* return services, nil
ServicesReturn(svcs) == [val |-> svcs, err |-> Nil]

\* client.New(cfg): cfg holds ETCD_HOST, which the environment sets; the
\* answer is nil or an error
ClientNew == {Nil, ClientError}

\* no call is running: none was made yet, the last one returned, panicked,
\* or ended the process in log.Fatal (a new process then makes the next call)
Done == {"idle", "returned", "panicked", "exited"}

NoRet == [val |-> NoServices, err |-> Nil]

ResetHistory ==
    /\ attempts' = 0
    /\ timeouts' = 0
    /\ acked' = FALSE
    /\ lastAns' = Nil
    /\ sleeps' = <<>>
    /\ resp' = <<>>

\* the history of one answered store operation
Answered(err) ==
    /\ attempts' = attempts + 1
    /\ timeouts' = IF err = DeadlineExceeded THEN timeouts + 1 ELSE timeouts
    /\ acked' = (acked \/ err = Nil)
    /\ lastAns' = err

\* the history of the calls made so far, kept while every call was a Register
\* that returned nil
NoteRegistered(s) ==
    /\ registered' = IF onlyRegs THEN registered \cup {<<s.Name, s.Port>>} ELSE {}
    /\ UNCHANGED onlyRegs

NoteOther ==
    /\ registered' = {}
    /\ onlyRegs' = FALSE

(***************************************************************************)
(* Register (portmapper.go:147-220)                                        *)
(***************************************************************************)
\* lines 148-178: build the record, validate it (panic), marshal it, make
\* the client (log.Fatal)
Register(name, port, hostname) ==
    LET s == NewService(name, port, hostname)
    IN  /\ pc \in Done
        /\ op' = "Register"
        /\ svc' = s
        /\ try' = 0
        /\ services' = NoServices
        /\ ResetHistory
        /\ \E c \in ClientNew :
             IF validate(s) # Nil
             THEN /\ pc' = "panicked"
                  /\ bytes' = <<>>
                  /\ ret' = [val |-> NoServices, err |-> validate(s)]
                  /\ NoteOther
             ELSE /\ bytes' = Marshal(s)
                  /\ IF c # Nil
                     THEN /\ pc' = "exited"
                          /\ ret' = [val |-> NoServices, err |-> c]
                          /\ NoteOther
                     ELSE IF LoopCond(0)
                          THEN /\ pc' = "attempt"
                               /\ ret' = NoRet
                               /\ UNCHANGED <<registered, onlyRegs>>
                          ELSE /\ pc' = "returned"
                               /\ ret' = [val |-> NoServices, err |-> AfterLoop]
                               /\ NoteRegistered(s)
        /\ UNCHANGED <<store, issuedInvalid, pureVars, peer>>

\* lines 181-214: one pass of the loop up to the sleep
RegisterAttempt ==
    /\ pc = "attempt"
    /\ op = "Register"
    /\ \E a \in StoreSet(store, path(svc), bytes) :
        /\ store' = a.store
        /\ Answered(a.err)
        /\ CASE OnAnswer(a.err) = "sleep" ->
                  /\ pc' = "sleep"
                  /\ UNCHANGED <<ret, registered, onlyRegs>>
             [] OnAnswer(a.err) = "return" ->
                  /\ pc' = "returned"
                  /\ ret' = [val |-> NoServices, err |-> a.err]
                  /\ NoteOther
             [] OTHER ->
                  /\ pc' = "returned"
                  /\ ret' = [val |-> NoServices, err |-> AfterLoop]
                  /\ NoteRegistered(svc)
    /\ issuedInvalid' = (issuedInvalid \/ svc.Name = "" \/ svc.Port \notin 1..65535)
    /\ UNCHANGED <<op, svc, bytes, try, services, sleeps, resp, pureVars, peer>>

\* lines 216-219: the sleep, try++, the loop condition, and return nil
RegisterSleep ==
    /\ pc = "sleep"
    /\ op = "Register"
    /\ sleeps' = Append(sleeps, Backoff(try))
    /\ try' = try + 1
    /\ IF LoopCond(try + 1)
       THEN /\ pc' = "attempt"
            /\ UNCHANGED <<ret, registered, onlyRegs>>
       ELSE /\ pc' = "returned"
            /\ ret' = [val |-> NoServices, err |-> AfterLoop]
            /\ NoteRegistered(svc)
    /\ UNCHANGED <<store, op, svc, bytes, services, attempts, timeouts, acked,
                   lastAns, resp, issuedInvalid, pureVars, peer>>

(***************************************************************************)
(* Unregister (portmapper.go:82-144)                                       *)
(***************************************************************************)
Unregister(name, port, hostname) ==
    LET s == NewService(name, port, hostname)
    IN  /\ pc \in Done
        /\ op' = "Unregister"
        /\ svc' = s
        /\ bytes' = <<>>
        /\ try' = 0
        /\ services' = NoServices
        /\ ResetHistory
        /\ NoteOther
        /\ \E c \in ClientNew :
             IF validate(s) # Nil
             THEN /\ pc' = "panicked"
                  /\ ret' = [val |-> NoServices, err |-> validate(s)]
             ELSE IF c # Nil
                  THEN /\ pc' = "exited"
                       /\ ret' = [val |-> NoServices, err |-> c]
                  ELSE IF LoopCond(0)
                       THEN /\ pc' = "attempt"
                            /\ ret' = NoRet
                       ELSE /\ pc' = "returned"
                            /\ ret' = [val |-> NoServices, err |-> AfterLoop]
        /\ UNCHANGED <<store, issuedInvalid, pureVars, peer>>

UnregisterAttempt ==
    /\ pc = "attempt"
    /\ op = "Unregister"
    /\ \E a \in StoreDelete(store, path(svc)) :
        /\ store' = a.store
        /\ Answered(a.err)
        /\ CASE OnAnswer(a.err) = "sleep" ->
                  /\ pc' = "sleep"
                  /\ UNCHANGED ret
             [] OnAnswer(a.err) = "return" ->
                  /\ pc' = "returned"
                  /\ ret' = [val |-> NoServices, err |-> a.err]
             [] OTHER ->
                  /\ pc' = "returned"
                  /\ ret' = [val |-> NoServices, err |-> AfterLoop]
    /\ issuedInvalid' = (issuedInvalid \/ svc.Name = "" \/ svc.Port \notin 1..65535)
    /\ UNCHANGED <<op, svc, bytes, try, services, sleeps, resp, registered,
                   onlyRegs, pureVars, peer>>

UnregisterSleep ==
    /\ pc = "sleep"
    /\ op = "Unregister"
    /\ sleeps' = Append(sleeps, Backoff(try))
    /\ try' = try + 1
    /\ IF LoopCond(try + 1)
       THEN /\ pc' = "attempt"
            /\ UNCHANGED ret
       ELSE /\ pc' = "returned"
            /\ ret' = [val |-> NoServices, err |-> AfterLoop]
    /\ UNCHANGED <<store, op, svc, bytes, services, attempts, timeouts, acked,
                   lastAns, resp, issuedInvalid, registered, onlyRegs,
                   pureVars, peer>>

(***************************************************************************)
(* Services (portmapper.go:224-277)                                        *)
(***************************************************************************)
Services ==
    /\ pc \in Done
    /\ op' = "Services"
    /\ svc' = ZeroService
    /\ bytes' = <<>>
    /\ try' = 0
    /\ services' = NoServices
    /\ ResetHistory
    /\ NoteOther
    /\ \E c \in ClientNew :
         IF c # Nil
         THEN /\ pc' = "exited"
              /\ ret' = [val |-> NoServices, err |-> c]
         ELSE IF LoopCond(0)
              THEN /\ pc' = "attempt"
                   /\ ret' = NoRet
              ELSE /\ pc' = "returned"
                   /\ ret' = [val |-> NoServices, err |-> Nil]
    /\ UNCHANGED <<store, issuedInvalid, pureVars, peer>>

\* lines 236-272: one pass of the loop up to the sleep
ServicesAttempt ==
    /\ pc = "attempt"
    /\ op = "Services"
    /\ \E a \in StoreGet(store) :
        /\ Answered(a.err)
        /\ CASE ServicesOnAnswer(a.err) = "sleep" ->
                  /\ pc' = "sleep"
                  /\ UNCHANGED <<services, ret, resp>>
             [] ServicesOnAnswer(a.err) = "return" ->
                  /\ pc' = "returned"
                  /\ ret' = [val |-> NoServices, err |-> a.err]
                  /\ UNCHANGED <<services, resp>>
             [] OTHER ->
                  LET d == DecodeNodes(a.nodes)
                  IN  /\ resp' = a.nodes
                      /\ IF d.err # Nil
                         THEN /\ pc' = "returned"
                              /\ ret' = [val |-> NoServices, err |-> d.err]
                              /\ UNCHANGED services
                         ELSE /\ pc' = "sleep"
                              /\ services' = Refill(services, d.val)
                              /\ UNCHANGED ret
    /\ UNCHANGED <<store, op, svc, bytes, try, sleeps, issuedInvalid, registered,
                   onlyRegs, pureVars, peer>>

\* lines 274-276: the sleep, try++, the loop condition, return services, nil
ServicesSleep ==
    /\ pc = "sleep"
    /\ op = "Services"
    /\ sleeps' = Append(sleeps, Backoff(try))
    /\ try' = try + 1
    /\ IF LoopCond(try + 1)
       THEN /\ pc' = "attempt"
            /\ UNCHANGED ret
       ELSE /\ pc' = "returned"
            /\ ret' = ServicesReturn(services)
    /\ UNCHANGED <<store, op, svc, bytes, services, attempts, timeouts, acked,
                   lastAns, resp, issuedInvalid, registered, onlyRegs,
                   pureVars, peer>>

(***************************************************************************)
(* The rest of the world: other processes using the library on the same    *)
(* store, and writers that do not use it                                   *)
(***************************************************************************)
\* a Set of another process's Register takes effect (line 186)
OtherRegister(name, port, hostname) ==
    LET s == NewService(name, port, hostname)
    IN  /\ validate(s) = Nil
        /\ store' = Put(store, path(s), Marshal(s))
        /\ NoteOther
        /\ UNCHANGED <<callVars, histVars, issuedInvalid, pureVars, peer>>

\* a Delete of another process's Unregister takes effect (line 110)
OtherUnregister(name, port) ==
    LET s == NewService(name, port, "")
    IN  /\ validate(s) = Nil
        /\ path(s) \in DOMAIN store
        /\ store' = Remove(store, path(s))
        /\ NoteOther
        /\ UNCHANGED <<callVars, histVars, issuedInvalid, pureVars, peer>>

\* values that UnmarshalService rejects: a truncated document, and a port
\* that is a JSON string
Truncated == [members |-> <<StrMember("name", "web")>>, closed |-> FALSE]

PortAsString == [members |-> <<StrMember("name", "web"), StrMember("port", "http")>>,
                 closed |-> TRUE]

ForeignValues == {Truncated, PortAsString}

\* a writer that does not use the library puts a value under the registry
ForeignWrite(name, port, value) ==
    LET s == NewService(name, port, "")
    IN  /\ validate(s) = Nil
        /\ store' = Put(store, path(s), value)
        /\ NoteOther
        /\ UNCHANGED <<callVars, histVars, issuedInvalid, pureVars, peer>>

(***************************************************************************)
(* A second process running Register (portmapper.go:147-220)               *)
(***************************************************************************)
PeerIdle == [pc |-> "idle", svc |-> ZeroService, bytes |-> <<>>, try |-> 0, ret |-> NoRet]

PeerFrame ==
    UNCHANGED <<callVars, histVars, issuedInvalid, registered, onlyRegs, pureVars>>

\* lines 148-178 in the second process
PeerRegister(name, port, hostname) ==
    LET s == NewService(name, port, hostname)
    IN  /\ peer.pc = "idle"
        /\ \E c \in ClientNew :
             peer' =
                 IF validate(s) # Nil
                 THEN [pc |-> "panicked", svc |-> s, bytes |-> <<>>, try |-> 0,
                       ret |-> [val |-> NoServices, err |-> validate(s)]]
                 ELSE IF c # Nil
                 THEN [pc |-> "exited", svc |-> s, bytes |-> Marshal(s), try |-> 0,
                       ret |-> [val |-> NoServices, err |-> c]]
                 ELSE IF LoopCond(0)
                 THEN [pc |-> "attempt", svc |-> s, bytes |-> Marshal(s), try |-> 0,
                       ret |-> NoRet]
                 ELSE [pc |-> "returned", svc |-> s, bytes |-> Marshal(s), try |-> 0,
                       ret |-> [val |-> NoServices, err |-> AfterLoop]]
        /\ UNCHANGED store
        /\ PeerFrame

\* lines 181-214 in the second process
PeerAttempt ==
    /\ peer.pc = "attempt"
    /\ \E a \in StoreSet(store, path(peer.svc), peer.bytes) :
        /\ store' = a.store
        /\ peer' =
             CASE OnAnswer(a.err) = "sleep" -> [peer EXCEPT !.pc = "sleep"]
               [] OnAnswer(a.err) = "return" ->
                    [peer EXCEPT !.pc = "returned",
                                 !.ret = [val |-> NoServices, err |-> a.err]]
               [] OTHER ->
                    [peer EXCEPT !.pc = "returned",
                                 !.ret = [val |-> NoServices, err |-> AfterLoop]]
    /\ PeerFrame

\* lines 216-219 in the second process
PeerSleep ==
    /\ peer.pc = "sleep"
    /\ peer' =
         IF LoopCond(peer.try + 1)
         THEN [peer EXCEPT !.pc = "attempt", !.try = peer.try + 1]
         ELSE [peer EXCEPT !.pc = "returned", !.try = peer.try + 1,
                           !.ret = [val |-> NoServices, err |-> AfterLoop]]
    /\ UNCHANGED store
    /\ PeerFrame

Init ==
    /\ store = <<>>
    /\ pc = "idle"
    /\ op = "none"
    /\ svc = ZeroService
    /\ bytes = <<>>
    /\ try = 0
    /\ services = NoServices
    /\ ret = NoRet
    /\ attempts = 0
    /\ timeouts = 0
    /\ acked = FALSE
    /\ lastAns = Nil
    /\ sleeps = <<>>
    /\ resp = <<>>
    /\ issuedInvalid = FALSE
    /\ registered = {}
    /\ onlyRegs = TRUE
    /\ pureIn = [a |-> ZeroService, b |-> ZeroService]
    /\ pureOut = [done |-> FALSE, ka |-> "", kb |-> ""]
    /\ peer = PeerIdle

Next ==
    \/ \E n \in Names, p \in Ports, h \in Hostnames : Register(n, p, h)
    \/ RegisterAttempt
    \/ RegisterSleep
    \/ \E n \in Names, p \in Ports, h \in Hostnames : Unregister(n, p, h)
    \/ UnregisterAttempt
    \/ UnregisterSleep
    \/ Services
    \/ ServicesAttempt
    \/ ServicesSleep
    \/ \E n \in Names, p \in Ports, h \in Hostnames : OtherRegister(n, p, h)
    \/ \E n \in Names, p \in Ports : OtherUnregister(n, p)
    \/ \E n \in Names, p \in Ports, v \in ForeignValues : ForeignWrite(n, p, v)

Spec == Init /\ [][Next]_vars

\* the process is scheduled and every store operation is answered
FairSpec ==
    /\ Spec
    /\ WF_vars(RegisterAttempt \/ RegisterSleep)
    /\ WF_vars(UnregisterAttempt \/ UnregisterSleep)
    /\ WF_vars(ServicesAttempt \/ ServicesSleep)

(***************************************************************************)
(* path() on its own: two records are given to it                          *)
(***************************************************************************)
Alphabet == {"a", ":", "1"}

RECURSIVE NamesUpTo(_)
NamesUpTo(n) ==
    IF n = 0 THEN {""}
    ELSE NamesUpTo(n - 1) \cup {x \o c : x \in NamesUpTo(n - 1), c \in Alphabet}

PathPorts == {1, 2, 12, 65535}

PathServices ==
    {NewService(n, p, h) : n \in NamesUpTo(MaxNameLen) \ {""}, p \in PathPorts,
                           h \in Hostnames}

PathInit ==
    /\ store = <<>>
    /\ pc = "idle"
    /\ op = "none"
    /\ svc = ZeroService
    /\ bytes = <<>>
    /\ try = 0
    /\ services = NoServices
    /\ ret = NoRet
    /\ attempts = 0
    /\ timeouts = 0
    /\ acked = FALSE
    /\ lastAns = Nil
    /\ sleeps = <<>>
    /\ resp = <<>>
    /\ issuedInvalid = FALSE
    /\ registered = {}
    /\ onlyRegs = TRUE
    /\ pureIn \in [a : PathServices, b : PathServices]
    /\ pureOut = [done |-> FALSE, ka |-> "", kb |-> ""]
    /\ peer = PeerIdle

ComputePath ==
    /\ ~pureOut.done
    /\ pureOut' = [done |-> TRUE, ka |-> path(pureIn.a), kb |-> path(pureIn.b)]
    /\ UNCHANGED <<store, callVars, histVars, issuedInvalid, registered, onlyRegs,
                   pureIn, peer>>

PathNext == ComputePath

PathSpec == PathInit /\ [][PathNext]_vars

\* no call was made: the state of Init but for pureIn and pureOut
NoCall ==
    /\ store = <<>>
    /\ pc = "idle"
    /\ op = "none"
    /\ svc = ZeroService
    /\ bytes = <<>>
    /\ try = 0
    /\ services = NoServices
    /\ ret = NoRet
    /\ attempts = 0
    /\ timeouts = 0
    /\ acked = FALSE
    /\ lastAns = Nil
    /\ sleeps = <<>>
    /\ resp = <<>>
    /\ issuedInvalid = FALSE
    /\ registered = {}
    /\ onlyRegs = TRUE
    /\ peer = PeerIdle

NoCallStep ==
    UNCHANGED <<store, callVars, histVars, issuedInvalid, registered, onlyRegs, peer>>

(***************************************************************************)
(* The library as the only writer of the registry                          *)
(***************************************************************************)
LibNames == {"web", "a/b"}

LibPorts == {8080}

LibHostnames == {"h1"}

LibNext ==
    \/ \E n \in LibNames, p \in LibPorts, h \in LibHostnames : Register(n, p, h)
    \/ RegisterAttempt
    \/ RegisterSleep
    \/ \E n \in LibNames, p \in LibPorts, h \in LibHostnames : Unregister(n, p, h)
    \/ UnregisterAttempt
    \/ UnregisterSleep
    \/ Services
    \/ ServicesAttempt
    \/ ServicesSleep

LibSpec == Init /\ [][LibNext]_vars

(***************************************************************************)
(* Two processes, each running Register once for the same name and port    *)
(***************************************************************************)
RaceName == "web"

RacePort == 8080

RaceHostnames == {"h1", "h2"}

\* the first process calls Register once
RegisterOnce(hostname) ==
    /\ pc = "idle"
    /\ Register(RaceName, RacePort, hostname)

RaceNext ==
    \/ \E h \in RaceHostnames : RegisterOnce(h)
    \/ RegisterAttempt
    \/ RegisterSleep
    \/ \E h \in RaceHostnames : PeerRegister(RaceName, RacePort, h)
    \/ PeerAttempt
    \/ PeerSleep

RaceSpec == Init /\ [][RaceNext]_vars

(***************************************************************************)
(* validate() on its own                                                   *)
(***************************************************************************)
ValidatePorts == {0 - 65536, 0 - 1, 0, 1, 2, 65534, 65535, 65536}

ValidateServices ==
    {NewService(n, p, h) : n \in NamesUpTo(MaxNameLen), p \in ValidatePorts,
                           h \in Hostnames}

ValidateInit ==
    /\ NoCall
    /\ pureIn \in [a : ValidateServices]
    /\ pureOut = [done |-> FALSE, err |-> Nil]

ComputeValidate ==
    /\ ~pureOut.done
    /\ pureOut' = [done |-> TRUE, err |-> validate(pureIn.a)]
    /\ UNCHANGED pureIn
    /\ NoCallStep

ValidateNext == ComputeValidate

ValidateSpec == ValidateInit /\ [][ValidateNext]_vars

(***************************************************************************)
(* Marshal and UnmarshalService on their own                               *)
(***************************************************************************)
StringsUpTo(n) == {p[1] : p \in CoercionsUpTo(n)}

CodecPorts == {1, 8080, 65535}

CodecHostnames == {"", "h1", InvalidByte}

CodecServices ==
    {NewService(n, p, h) : n \in StringsUpTo(MaxNameLen) \ {""}, p \in CodecPorts,
                           h \in CodecHostnames}

CodecInit ==
    /\ NoCall
    /\ pureIn \in [a : CodecServices]
    /\ pureOut = [done |-> FALSE, bytes |-> <<>>, dec |-> [svc |-> ZeroService, err |-> Nil]]

ComputeCodec ==
    /\ ~pureOut.done
    /\ pureOut' = [done |-> TRUE, bytes |-> Marshal(pureIn.a),
                   dec |-> UnmarshalService(Marshal(pureIn.a))]
    /\ UNCHANGED pureIn
    /\ NoCallStep

CodecNext == ComputeCodec

CodecSpec == CodecInit /\ [][CodecNext]_vars

(***************************************************************************)
(* Properties                                                              *)
(***************************************************************************)
\* the valid records of the data model: a name, and a port in 1..65535
ValidRecord(s) == s.Name # "" /\ s.Port >= 1 /\ s.Port <= 65535

Running == {"attempt", "sleep"}

RECURSIVE NonDecreasing(_)
NonDecreasing(q) ==
    Len(q) < 2 \/ (q[1] <= q[2] /\ NonDecreasing(Tail(q)))

IsStoreFailure(err) == err \in {KeyNotFound, StoreError}

\* C1: when every attempt of a Register call timed out, Register has made
\* exactly MaxRetries attempts and returns the last timeout error.
C1_ExhaustionReturnsTimeout ==
    (pc = "returned" /\ op = "Register" /\ timeouts = MaxRetries)
        => (attempts = MaxRetries /\ ret.err = DeadlineExceeded)

\* C2: a Register or Unregister call for a record with an empty name or a
\* port outside 1..65535 ends in the panic with an error before any store
\* operation; no Set or Delete is ever issued for such a record and the store
\* holds no entry under the key of one.
C2_InvalidNeverReachesStore ==
    /\ ~issuedInvalid
    /\ (op \in {"Register", "Unregister"} /\ ~ValidRecord(svc))
          => (pc = "panicked" /\ ret.err # Nil /\ attempts = 0)
    /\ \A n \in Names, p \in Ports, h \in Hostnames :
          ~ValidRecord(NewService(n, p, h))
              => path(NewService(n, p, h)) \notin DOMAIN store

C2_Witness ==
    /\ pc = "panicked"
    /\ op = "Register"
    /\ svc.Name = "web"
    /\ svc.Port = 0
    /\ DOMAIN store # {}

\* C3: an Unregister whose Delete is answered "key not found" returns nil.
C3_NotFoundIsSuccess ==
    (pc = "returned" /\ op = "Unregister" /\ lastAns = KeyNotFound)
        => ret.err = Nil

\* C4: in Register, Unregister and Services, once a store operation is
\* answered with an error other than the timeout, the call has returned that
\* error, with no sleep and no store operation after it: the failed operation
\* is the one of the current loop index, so an error on the first attempt
\* leaves exactly one attempt.
C4_NonTimeoutErrorReturned ==
    (op \in {"Register", "Unregister", "Services"} /\ IsStoreFailure(lastAns))
        => /\ pc = "returned"
           /\ ret.err = lastAns
           /\ ret.val = NoServices
           /\ attempts = try + 1
           /\ Len(sleeps) = try

C4_Witness ==
    /\ pc = "returned"
    /\ op = "Services"
    /\ lastAns = StoreError
    /\ attempts = 3
    /\ acked

C4_WitnessFirst ==
    /\ pc = "returned"
    /\ op = "Register"
    /\ lastAns = StoreError
    /\ attempts = 1

\* C5: when the Set of a Register call is acknowledged after k timeouts,
\* k < MaxRetries, Register has returned nil after exactly k+1 attempts, the
\* acknowledged one being the last, and the k sleeps between the attempts are
\* non-decreasing.
C5_TimeoutsThenSuccess ==
    (op = "Register" /\ acked)
        => /\ pc = "returned"
           /\ ret.err = Nil
           /\ lastAns = Nil
           /\ timeouts < MaxRetries
           /\ attempts = timeouts + 1
           /\ Len(sleeps) = timeouts
           /\ NonDecreasing(sleeps)

C5_Witness ==
    /\ pc = "returned"
    /\ op = "Register"
    /\ acked
    /\ timeouts = MaxRetries - 1
    /\ Len(sleeps) = MaxRetries - 1

\* C6: every call of Register, Unregister and Services that has entered its
\* loop returns, and no call issues more than MaxRetries store operations.
C6_Terminates ==
    /\ [](attempts <= MaxRetries)
    /\ (pc \in Running) ~> (pc \in {"returned", "panicked", "exited"})

C6_Witness ==
    /\ pc = "returned"
    /\ op = "Unregister"
    /\ attempts = MaxRetries
    /\ timeouts = MaxRetries

\* C7: while the only calls made were Register calls that returned nil, the
\* store holds exactly the keys of the (name, port) pairs registered.
C7_OneEntryPerRegisteredPair ==
    (onlyRegs /\ pc \in Done)
        => DOMAIN store = {path(NewService(r[1], r[2], "")) : r \in registered}

\* C8: when Services has returned after a read was acknowledged, no read
\* failed with a store error and every value of the latest acknowledged read
\* is well formed, it returns a nil error and a list with one record per node
\* of that read, in the order of the nodes, each record being the one stored
\* in its node: the node's value is the record's encoding and the node's key
\* is the record's key.
C8_ServicesReturnsReadEntries ==
    (pc = "returned" /\ op = "Services" /\ acked /\ ~IsStoreFailure(lastAns)
        /\ \A i \in 1..Len(resp) : resp[i].Value \notin ForeignValues)
        => /\ ret.err = Nil
           /\ Len(ret.val) = Len(resp)
           /\ \A i \in 1..Len(resp) :
                 /\ Marshal(ret.val[i]) = resp[i].Value
                 /\ path(ret.val[i]) = resp[i].Key

C8_Witness ==
    /\ pc = "returned"
    /\ op = "Services"
    /\ ret.err = Nil
    /\ Len(ret.val) = 2
    /\ ret.val[1].Port = 8081
    /\ ret.val[1].Hostname = ""
    /\ ret.val[2].Port = 8080
    /\ ret.val[2].Hostname = "h1"

\* the error json.Unmarshal gives for a value no Service decodes from
ExpectedDecodeError(v) ==
    CASE v = Truncated    -> SyntaxError
      [] v = PortAsString -> TypeError
      [] OTHER            -> Nil

Undecodable(nodes) == {i \in 1..Len(nodes) : nodes[i].Value \in ForeignValues}

FirstUndecodable(nodes) ==
    CHOOSE i \in Undecodable(nodes) : \A j \in Undecodable(nodes) : i <= j

\* C9: when a node of an acknowledged read does not decode, Services has
\* returned the decode error of the first such node and no record list.
C9_DecodeFailureAborts ==
    (op = "Services" /\ Undecodable(resp) # {})
        => /\ pc = "returned"
           /\ ret.val = NoServices
           /\ ret.err = ExpectedDecodeError(resp[FirstUndecodable(resp)].Value)

C9_Witness ==
    /\ pc = "returned"
    /\ op = "Services"
    /\ Len(resp) = 2
    /\ resp[1].Value \notin ForeignValues
    /\ resp[2].Value = PortAsString
    /\ attempts = 2

\* C10: for valid records, path() gives the same key exactly when name and
\* port are the same, whatever the hostnames.
C10_PathInjective ==
    (pureOut.done /\ ValidRecord(pureIn.a) /\ ValidRecord(pureIn.b))
        => ((pureIn.a.Name = pureIn.b.Name /\ pureIn.a.Port = pureIn.b.Port)
               <=> pureOut.ka = pureOut.kb)

C10_Witness ==
    /\ pureOut.done
    /\ pureIn.a.Name = "a1"
    /\ pureIn.a.Port = 2
    /\ pureIn.b.Name = "a"
    /\ pureIn.b.Port = 12
    /\ pureOut.ka # pureOut.kb

C10_WitnessSame ==
    /\ pureOut.done
    /\ pureIn.a.Name = "a:"
    /\ pureIn.b.Name = "a:"
    /\ pureIn.a.Port = 12
    /\ pureIn.b.Port = 12
    /\ pureIn.a.Hostname # pureIn.b.Hostname
    /\ pureOut.ka = pureOut.kb

\* C13: once a read of a Services call is acknowledged and decoded, the call
\* has returned its records, with no read and no sleep after that read.
C13_ReturnsOnFirstSuccess ==
    (op = "Services" /\ acked /\ lastAns = Nil /\ Undecodable(resp) = {})
        => /\ pc = "returned"
           /\ ret.err = Nil
           /\ attempts = timeouts + 1
           /\ Len(sleeps) = timeouts

\* C14: when all MaxRetries reads of a Services call timed out, Services
\* returns an empty list and a nil error.
C14_ExhaustedListingIsEmptyNil ==
    (pc = "returned" /\ op = "Services" /\ timeouts = MaxRetries)
        => /\ attempts = MaxRetries
           /\ ret.err = Nil
           /\ ret.val = <<>>
           /\ Len(ret.val) = 0

C14_Witness ==
    /\ pc = "returned"
    /\ op = "Services"
    /\ timeouts = MaxRetries
    /\ DOMAIN store # {}

\* the list v holds, node by node and in order, the records stored in nodes
DecodingOf(v, nodes) ==
    /\ Len(v) = Len(nodes)
    /\ \A i \in 1..Len(nodes) : Marshal(v[i]) = nodes[i].Value

\* C15: whatever other processes do to the store between the reads of a
\* Services call, the slice it holds after an acknowledged read, and the list
\* it returns with a nil error, is the decoding of the latest acknowledged
\* read alone; a timeout after that read leaves it as it is.
C15_ResultIsOneRead ==
    (op = "Services" /\ acked)
        => /\ pc \in Running => DecodingOf(services, resp)
           /\ (pc = "returned" /\ ret.err = Nil) => DecodingOf(ret.val, resp)

\* two reads were acknowledged, a timeout followed, and the store has changed
\* since the latest acknowledged read
C15_Witness ==
    /\ pc = "returned"
    /\ op = "Services"
    /\ ret.err = Nil
    /\ attempts - timeouts >= 2
    /\ lastAns = DeadlineExceeded
    /\ Len(ret.val) = 2
    /\ DOMAIN store = {}

\* C16: a nil return of Register or Unregister means that the store
\* acknowledged a Set, or a Delete, of the record's key during the call.
C16_NilImpliesAcked ==
    (pc = "returned" /\ op \in {"Register", "Unregister"} /\ ret.err = Nil)
        => acked

\* the entries of st and of st2 other than the one at key are the same
SameExcept(st, st2, key) ==
    /\ DOMAIN st \ {key} = DOMAIN st2 \ {key}
    /\ \A k \in DOMAIN st \ {key} : st2[k] = st[k]

\* a step of the running call (the other processes' steps leave these alone)
CallStep == pc \in Running /\ (attempts' # attempts \/ try' # try)

\* C19: a step of Unregister changes no store entry but the one at the key
\* of its (name, port), and a step of Services changes no store entry.
C19_Frame ==
    [][/\ (op = "Unregister" /\ CallStep) => SameExcept(store, store', path(svc))
       /\ (op = "Services" /\ CallStep) => store' = store
       /\ (op' \in {"Unregister", "Services"} /\ pc \in Done /\ pc' \notin Done)
            => store' = store]_vars

\* Unregister(web, 8080) was acknowledged and web:8081 is still there
C19_Witness ==
    /\ pc = "returned"
    /\ op = "Unregister"
    /\ acked
    /\ svc.Port = 8080
    /\ path(svc) \notin DOMAIN store
    /\ path(NewService("web", 8081, "")) \in DOMAIN store

\* C20: the i-th sleep of a call lasts 2 << (i-1) milliseconds, twice the one
\* before it (2048 ms after the attempt of index 10); Register and Unregister
\* sleep once per timed-out attempt and never after an acknowledged one.
C20_BackoffDoubles ==
    /\ \A i \in 1..Len(sleeps) :
          sleeps[i] = IF i = 1 THEN 2 ELSE 2 * sleeps[i - 1]
    /\ op \in {"Register", "Unregister"}
          => Len(sleeps) = IF pc = "sleep" THEN timeouts - 1 ELSE timeouts
    /\ Backoff(10) = 2048

C20_Witness ==
    /\ pc = "returned"
    /\ op = "Unregister"
    /\ acked
    /\ sleeps = <<2, 4, 8>>

\* C11: for every valid record r, UnmarshalService(r.Marshal()) gives no error
\* and r itself: name, port and hostname, the empty hostname included.
C11_RoundTrip ==
    (pureOut.done /\ ValidRecord(pureIn.a))
        => /\ pureOut.dec.err = Nil
           /\ pureOut.dec.svc = pureIn.a

\* C12: validate accepts a record exactly when its name is not empty and its
\* port is in 1..65535.
C12_ValidateRange ==
    pureOut.done
        => ((pureOut.err = Nil)
              <=> (pureIn.a.Name # "" /\ pureIn.a.Port >= 1 /\ pureIn.a.Port <= 65535))

C12_Witness ==
    /\ pureOut.done
    /\ pureIn.a.Name # ""
    /\ pureIn.a.Port = 65535
    /\ pureOut.err = Nil

C12_WitnessRejected ==
    /\ pureOut.done
    /\ pureIn.a.Name # ""
    /\ pureIn.a.Port = 65536
    /\ pureOut.err # Nil

\* C17: while only the library writes to the registry, every store entry
\* decodes to a valid record whose key is the entry's key, and every record
\* that Services returns is valid.
C17_EntriesWellFormed ==
    /\ \A k \in DOMAIN store :
          LET d == UnmarshalService(store[k])
          IN  d.err = Nil /\ ValidRecord(d.svc) /\ path(d.svc) = k
    /\ (pc = "returned" /\ op = "Services" /\ ret.err = Nil)
          => \A i \in 1..Len(ret.val) : ValidRecord(ret.val[i])

\* C18: once two concurrent Register calls for the same name and port have
\* both returned success, the store holds exactly one entry, under their
\* key, and its value is the complete payload of one of the two calls.
C18_BothSucceededOneEntry ==
    (/\ pc = "returned" /\ op = "Register" /\ ret.err = Nil
     /\ peer.pc = "returned" /\ peer.ret.err = Nil
     /\ path(svc) = path(peer.svc))
        => /\ DOMAIN store = {path(svc)}
           /\ store[path(svc)] \in {Marshal(svc), Marshal(peer.svc)}

=============================================================================
